---- MODULE Spec2Model ----
(***************************************************************************)
(* A model of the quicktag scanner (crates/quicktag/src/scanner.rs):       *)
(* scan_file, create_scanner_context, load_tag_cache and                   *)
(* transform_tag_cache.                                                    *)
(*                                                                         *)
(* A u32 is kept as the record [hi, lo] of its two 16-bit halves (TLC's    *)
(* integers are 32-bit signed and every tag hash is above 2^31); a u64 is  *)
(* the record [hi32, lo32] of two such records.  A byte is 0..255.         *)
(***************************************************************************)
EXTENDS Integers, Sequences, FiniteSets, TLC

\* ------------------------------------------------------------------ bounds

\* The longest scanned buffer, in 4-byte words (SpecScan).
MaxWords == 5

\* ---------------------------------------------------------------- integers

U32(h, l) == [hi |-> h, lo |-> l]

U64(h, l) == [hi32 |-> h, lo32 |-> l]

U32Less(a, b) == a.hi < b.hi \/ (a.hi = b.hi /\ a.lo < b.lo)

\* u32::from_le_bytes: byte 0 is the least significant.
FromLeBytes4_BigEndian(m) == U32(m[1] * 256 + m[2], m[3] * 256 + m[4])

FromLeBytes4(m) == U32(m[4] * 256 + m[3], m[2] * 256 + m[1])

\* A plausible slip: the two 32-bit halves the wrong way round.
FromLeBytes8_Swapped(m) ==
    U64(FromLeBytes4(SubSeq(m, 1, 4)), FromLeBytes4(SubSeq(m, 5, 8)))

\* u64::from_le_bytes: bytes 0..3 are the low 32 bits.
FromLeBytes8(m) == U64(FromLeBytes4(SubSeq(m, 5, 8)), FromLeBytes4(SubSeq(m, 1, 4)))

\* The little-endian bytes of a u32 and of a u64 (what a package file holds).
LeBytes4(v) == << v.lo % 256, v.lo \div 256, v.hi % 256, v.hi \div 256 >>

LeBytes8(w) == LeBytes4(w.lo32) \o LeBytes4(w.hi32)

\* ------------------------------------------------- destiny_pkg::TagHash

\* 0x80800000, the base of every tag hash.
TagBase == U32(32896, 0)

\* 0x80ffffff, the largest valid tag hash.
TagMax == U32(33023, 65535)

\* TagHash::new(pkg_id, entry): 0x80800000 + (pkg_id << 13) + entry % 8192.
TagHashNew(pkg_id, entry) ==
    LET off == pkg_id * 8192 + (entry % 8192)
    IN  U32((32896 + off \div 65536) % 65536, off % 65536)

\* TagHash::is_valid: 0x80800000 < hash <= 0x80ffffff.
IsValid(hash) == U32Less(TagBase, hash) /\ ~U32Less(TagMax, hash)

\* TagHash::pkg_id of a valid hash: (hash - 0x80800000) >> 13.
PkgId(hash) == (hash.hi - 32896) * 8 + hash.lo \div 8192

\* TagHash::is_pkg_file: a valid hash whose package id is in 0x10..0xa00.
IsPkgFile(hash) == IsValid(hash) /\ PkgId(hash) >= 16 /\ PkgId(hash) < 2560

\* ------------------------------------------------------------ scan_file

\* The reserved empty-string hash 0x811c9dc5.
Sentinel == U32(33052, 40389)

\* ScanResult::default().
EmptyScanResult ==
    [file_hashes |-> << >>, file_hashes64 |-> << >>,
     string_hashes |-> << >>, references |-> << >>]

ScannedHash(offset, hash) == [offset |-> offset, hash |-> hash]

\* A plausible slip: slice::chunks, which also yields the short last chunk.
ChunksExact_WithRemainder(bytes, n) ==
    [i \in 1..((Len(bytes) + n - 1) \div n) |->
        SubSeq(bytes, (i - 1) * n + 1,
               IF i * n <= Len(bytes) THEN i * n ELSE Len(bytes))]

\* slice::chunks_exact(n): the whole windows, the remainder left out.
ChunksExact(bytes, n) ==
    [i \in 1..(Len(bytes) \div n) |-> SubSeq(bytes, (i - 1) * n + 1, i * n)]

\* let offset = (i * stride) as u64, i the 0-based index of the window.
ChunkOffset_OneBased(i, stride) == i * stride

ChunkOffset(i, stride) == (i - 1) * stride

\* A plausible slip: the structural test left out.
IsFileHashMatch_NoPkgTest(ctx, hash) == hash \in ctx.valid_file_hashes

\* hash.is_pkg_file() && context.valid_file_hashes.contains(&hash)
IsFileHashMatch(ctx, hash) == IsPkgFile(hash) /\ hash \in ctx.valid_file_hashes

\* A plausible slip: the string test only for windows that were no file hash.
IsStringHashMatch_Exclusive(ctx, value) ==
    /\ ~IsFileHashMatch(ctx, value)
    /\ (value = Sentinel \/ value \in ctx.known_string_hashes)

\* value == 0x811c9dc5 || context.known_string_hashes.contains(&value)
IsStringHashMatch(ctx, value) ==
    value = Sentinel \/ value \in ctx.known_string_hashes

\* context.valid_file_hashes64.contains(&hash)
IsFileHash64Match(ctx, hash) == hash \in ctx.valid_file_hashes64

\* The first loop: 4-byte windows, i the 1-based index of the next window.
RECURSIVE Pass4(_, _, _, _)
Pass4(ctx, chunks, i, r) ==
    IF i > Len(chunks) THEN r
    ELSE LET value  == FromLeBytes4(chunks[i])
             offset == ChunkOffset(i, 4)
             r1 == IF IsFileHashMatch(ctx, value)
                   THEN [r EXCEPT !.file_hashes =
                            Append(@, ScannedHash(offset, value))]
                   ELSE r
             r2 == IF IsStringHashMatch(ctx, value)
                   THEN [r1 EXCEPT !.string_hashes =
                            Append(@, ScannedHash(offset, value))]
                   ELSE r1
         IN  Pass4(ctx, chunks, i + 1, r2)

\* The second loop: 8-byte windows.
RECURSIVE Pass8(_, _, _, _)
Pass8(ctx, chunks, i, r) ==
    IF i > Len(chunks) THEN r
    ELSE LET value  == FromLeBytes8(chunks[i])
             offset == ChunkOffset(i, 8)
             r1 == IF IsFileHash64Match(ctx, value)
                   THEN [r EXCEPT !.file_hashes64 =
                            Append(@, ScannedHash(offset, value))]
                   ELSE r
         IN  Pass8(ctx, chunks, i + 1, r1)

\* v.try_into().unwrap() panics on a window that is not of the full size.
ScanFilePanics(bytes) ==
    \/ \E i \in DOMAIN ChunksExact(bytes, 4) : Len(ChunksExact(bytes, 4)[i]) # 4
    \/ \E i \in DOMAIN ChunksExact(bytes, 8) : Len(ChunksExact(bytes, 8)[i]) # 8

\* scan_file(context, data), when it does not panic.
ScanFile(ctx, bytes) ==
    Pass8(ctx, ChunksExact(bytes, 8), 1,
          Pass4(ctx, ChunksExact(bytes, 4), 1, EmptyScanResult))

\* ------------------------------------------------------------------ state

VARIABLES
    pc,         \* where the caller is
    data,       \* the bytes handed to scan_file
    context,    \* the ScannerContext
    result,     \* what scan_file did: [panicked, r]
    status,     \* SCANNER_PROGRESS
    hash64_table,           \* package_manager().hash64_table
    cache,                  \* the flat cache: key -> ScanResult
    direct_reference_cache, \* transform_tag_cache: key -> Vec<TagHash>
    gathered,               \* the keys the first loop has been through
    new_cache,              \* transform_tag_cache: the enriched cache
    pkgs,       \* the package source: path -> what the package holds
    file,       \* cache.bin
    write_fault,            \* which step of writing cache.bin fails
    wpc,        \* per package: where the closure of map_with is
    wpos,       \* per package: the next element of all_tags
    wcur,       \* per package: the closure's current_package
    results,    \* per package: the closure's results map
    returned,   \* what load_tag_cache returned
    load_attempt,           \* what reading cache.bin came to
    previous,   \* what the run of load_tag_cache before this one returned
    lock        \* the closures that hold the write lock of SCANNER_PROGRESS

vars == << pc, data, context, result, status, hash64_table, cache,
           direct_reference_cache, gathered, new_cache,
           pkgs, file, write_fault, wpc, wpos, wcur, results, returned,
           load_attempt, previous, lock >>

workerVars == << wpc, wpos, wcur, results >>

scanVars == << data, context, result >>

transformVars == << cache, direct_reference_cache, gathered, new_cache >>

NoResult == [panicked |-> FALSE, r |-> EmptyScanResult]

\* IntMap::default(): the map with no key.
EmptyMap == << >>

\* ScanStatus::None and the other statuses that carry no field.
StatusNone == [kind |-> "None"]

StatusOf(kind) == [kind |-> kind]

\* ScanStatus::Scanning { current_package, total_packages }.
StatusScanning(current, total) ==
    [kind |-> "Scanning", current_package |-> current, total_packages |-> total]

\* impl Display for ScanStatus: the text written for a status, as the format
\* string and the values of its arguments.
Display(s) ==
    IF s.kind = "None" THEN [text |-> "", args |-> << >>]
    ELSE IF s.kind = "CreatingScanner"
    THEN [text |-> "Creating scanner", args |-> << >>]
    ELSE IF s.kind = "Scanning"
    THEN [text |-> "Creating new cache {}/{}",
          args |-> << s.current_package + 1, s.total_packages >>]
    ELSE IF s.kind = "TransformGathering"
    THEN [text |-> "Transforming cache (gathering references)",
          args |-> << >>]
    ELSE IF s.kind = "TransformApplying"
    THEN [text |-> "Transforming cache (applying references)",
          args |-> << >>]
    ELSE IF s.kind = "WritingCache"
    THEN [text |-> "Writing cache", args |-> << >>]
    ELSE [text |-> "Loading cache", args |-> << >>]

\* What a file holds that holds nothing: no length, no pair.
NoContent == [header |-> << >>, pairs |-> << >>]

\* No cache.bin, and load_tag_cache not yet returned.
NoFile == [state |-> "absent", content |-> NoContent]

NotReturned == [done |-> FALSE, loaded |-> FALSE, cache |-> EmptyMap]

\* RwLock::new(ScanStatus::None): no one holds the lock.
NoHolder == {}

\* The values of the variables load_tag_cache works with, outside a run of it.
PipelineIdle ==
    /\ pkgs = EmptyMap
    /\ file = NoFile
    /\ write_fault = "none"
    /\ wpc = EmptyMap
    /\ wpos = EmptyMap
    /\ wcur = EmptyMap
    /\ results = EmptyMap
    /\ returned = NotReturned
    /\ load_attempt = "pending"
    /\ previous = NotReturned
    /\ lock = NoHolder

pipelineVars == << pkgs, file, write_fault, wpc, wpos, wcur, results, returned,
                   load_attempt, previous, lock >>

\* *SCANNER_PROGRESS.write() = s: the lock is taken when no one holds it, the
\* status is written and the lock is given back.
WriteStatus(s) == lock = NoHolder /\ status' = s

\* ------------------------------------------------- inputs of scan_file

Zero == U32(0, 0)

\* TagHash::new(0x10, 0) = 0x80820000: a pkg file hash.
TagA == TagHashNew(16, 0)

\* 0xAABBCCDD.
HashAABBCCDD == U32(43707, 52445)

\* Two 64-bit hashes made of the words above.
Ext1 == U64(Zero, TagA)

Ext2 == U64(TagA, Sentinel)

Words == {LeBytes4(Zero), LeBytes4(TagA), LeBytes4(HashAABBCCDD), LeBytes4(Sentinel)}

RECURSIVE Concat(_)
Concat(ws) == IF ws = << >> THEN << >> ELSE Head(ws) \o Concat(Tail(ws))

\* Leading bytes that put the words off the 4-byte grid.
Prefixes == {<< >>, << 0 >>}

\* Trailing bytes that fill no whole window.
Tails == {SubSeq(LeBytes4(TagA), 1, k) : k \in 0..3}

DataSet ==
    {p \o Concat(ws) \o t :
        p \in Prefixes,
        ws \in UNION {[1..k -> Words] : k \in 0..MaxWords},
        t \in Tails}

ScanContexts ==
    {[valid_file_hashes |-> {TagA, HashAABBCCDD},
      valid_file_hashes64 |-> {Ext1},
      known_string_hashes |-> {}],
     [valid_file_hashes |-> {TagA},
      valid_file_hashes64 |-> {Ext1, Ext2},
      known_string_hashes |-> {TagA}],
     [valid_file_hashes |-> {},
      valid_file_hashes64 |-> {},
      known_string_hashes |-> {}]}

\* ------------------------------------------------------ scan_file, called

InitScan ==
    /\ pc = "scan_ready"
    /\ data \in DataSet
    /\ context \in ScanContexts
    /\ result = NoResult
    /\ status = StatusNone
    /\ hash64_table = EmptyMap
    /\ cache = EmptyMap
    /\ direct_reference_cache = EmptyMap
    /\ gathered = {}
    /\ new_cache = EmptyMap
    /\ PipelineIdle

\* A plausible slip: the matches are pushed to what the call before has
\* found, not to a ScanResult::default() of this call.
ScanOutcome_KeepsMatches(ctx, bytes) ==
    IF ScanFilePanics(bytes)
    THEN [panicked |-> TRUE, r |-> EmptyScanResult]
    ELSE [panicked |-> FALSE,
          r |-> Pass8(ctx, ChunksExact(bytes, 8), 1,
                      Pass4(ctx, ChunksExact(bytes, 4), 1, result.r))]

\* What a call of scan_file comes to: a panic, or the ScanResult.
ScanOutcome(ctx, bytes) ==
    IF ScanFilePanics(bytes)
    THEN [panicked |-> TRUE, r |-> EmptyScanResult]
    ELSE [panicked |-> FALSE, r |-> ScanFile(ctx, bytes)]

\* let r = scan_file(&context, &data);
ScanFileCall ==
    /\ pc = "scan_ready"
    /\ pc' = "scan_done"
    /\ result' = ScanOutcome(context, data)
    /\ UNCHANGED << data, context, status, hash64_table, transformVars,
                    pipelineVars >>

\* scan_file(&context, &data), called once more with the same arguments.
ScanFileAgain ==
    /\ pc = "scan_done"
    /\ pc' = "scan_again"
    /\ result' = ScanOutcome(context, data)
    /\ UNCHANGED << data, context, status, hash64_table, transformVars,
                    pipelineVars >>

NextScan == ScanFileCall \/ ScanFileAgain

SpecScan == InitScan /\ [][NextScan]_vars

\* ------------------------------------------------- scan_file: properties

\* The 32-bit and 64-bit little-endian values at byte offset o of data.
Value32At(o) ==
    U32(data[o + 4] * 256 + data[o + 3], data[o + 2] * 256 + data[o + 1])

Value64At(o) == U64(Value32At(o + 4), Value32At(o))

\* The offsets of the whole windows of a stride.
Windows(stride) ==
    {o \in 0..Len(data) : o % stride = 0 /\ o + stride <= Len(data)}

Range(seq) == {seq[i] : i \in DOMAIN seq}

StrictlyIncreasing(seq) ==
    \A i, j \in DOMAIN seq : i < j => seq[i].offset < seq[j].offset

ScanDone == pc = "scan_done"

InBounds(seq, stride) ==
    \A m \in Range(seq) :
        m.offset % stride = 0 /\ m.offset + stride <= Len(data)

\* C5: for every buffer, scan_file does not panic, and every recorded match
\* lies at a multiple of its stride (4 for file and string hashes, 8 for
\* 64-bit hashes) with the whole window inside the buffer.
C5_OffsetsAlignedInBounds ==
    ScanDone =>
        /\ ~result.panicked
        /\ InBounds(result.r.file_hashes, 4)
        /\ InBounds(result.r.string_hashes, 4)
        /\ InBounds(result.r.file_hashes64, 8)

\* A buffer whose length is a multiple of neither 4 nor 8, with matches of
\* all three kinds.
C5_Witness ==
    /\ ScanDone
    /\ Len(data) % 4 # 0
    /\ result.r.file_hashes # << >>
    /\ result.r.string_hashes # << >>
    /\ result.r.file_hashes64 # << >>

FileHashWindows ==
    {o \in Windows(4) :
        IsPkgFile(Value32At(o)) /\ Value32At(o) \in context.valid_file_hashes}

\* C6: file_hashes holds exactly the windows (o a multiple of 4, o + 4 <=
\* length) whose little-endian value is_pkg_file and is in
\* valid_file_hashes, one match per window, in increasing offset order.
C6_FileHashesExact ==
    ScanDone =>
        /\ Range(result.r.file_hashes) =
               {ScannedHash(o, Value32At(o)) : o \in FileHashWindows}
        /\ StrictlyIncreasing(result.r.file_hashes)
        /\ Len(result.r.file_hashes) = Cardinality(FileHashWindows)

\* Two matches, and a window whose value is in the set but is no pkg file.
C6_Witness ==
    /\ ScanDone
    /\ Len(result.r.file_hashes) >= 2
    /\ \E o \in Windows(4) \ FileHashWindows :
           Value32At(o) \in context.valid_file_hashes

\* v at offset 16 and at no other offset, no other window in the set.
OnlyAt16(v) ==
    /\ Len(data) >= 20
    /\ Value32At(16) = v
    /\ \A o \in 0..(Len(data) - 4) : o # 16 => Value32At(o) # v
    /\ \A o \in Windows(4) \ {16} :
           Value32At(o) \notin context.valid_file_hashes

NoStringHashAt(o) == \A m \in Range(result.r.string_hashes) : m.offset # o

\* C7 as stated: 0xAABBCCDD in the set and at offset 16 only gives exactly
\* one file hash match, at offset 16, and no string hash match there.
C7_AsStated ==
    (/\ ScanDone
     /\ HashAABBCCDD \in context.valid_file_hashes
     /\ HashAABBCCDD \notin context.known_string_hashes
     /\ OnlyAt16(HashAABBCCDD))
    => /\ result.r.file_hashes = << ScannedHash(16, HashAABBCCDD) >>
       /\ NoStringHashAt(16)

\* C7, amended: a value v of the set at offset 16 only gives exactly one
\* file hash match, at offset 16, when v is_pkg_file, and none when it is
\* not (0xAABBCCDD is not); no string hash match at offset 16 unless v is
\* the sentinel or a known string hash.
C7_OneMatchIfPkgFile ==
    \A v \in {TagA, HashAABBCCDD} :
        (ScanDone /\ v \in context.valid_file_hashes /\ OnlyAt16(v))
        => /\ result.r.file_hashes =
                  IF IsPkgFile(v) THEN << ScannedHash(16, v) >> ELSE << >>
           /\ (v # Sentinel /\ v \notin context.known_string_hashes)
                  => NoStringHashAt(16)

C7_Witness ==
    /\ ScanDone
    /\ TagA \in context.valid_file_hashes
    /\ context.known_string_hashes = {}
    /\ OnlyAt16(TagA)
    /\ result.r.file_hashes = << ScannedHash(16, TagA) >>

StringHashWindows ==
    {o \in Windows(4) :
        \/ Value32At(o) = Sentinel
        \/ Value32At(o) \in context.known_string_hashes}

\* C8: string_hashes holds exactly the 4-byte windows whose value is the
\* sentinel 0x811c9dc5 or a known string hash, whether or not the window is
\* also a file hash match: a window passing both tests is in both lists.
C8_StringHashesExact ==
    ScanDone =>
        /\ Range(result.r.string_hashes) =
               {ScannedHash(o, Value32At(o)) : o \in StringHashWindows}
        /\ Len(result.r.string_hashes) = Cardinality(StringHashWindows)
        /\ \A o \in StringHashWindows \cap FileHashWindows :
               /\ ScannedHash(o, Value32At(o)) \in Range(result.r.file_hashes)
               /\ ScannedHash(o, Value32At(o)) \in Range(result.r.string_hashes)

\* A window that is in both lists.
C8_Witness ==
    /\ ScanDone
    /\ \E m \in Range(result.r.string_hashes) :
           m \in Range(result.r.file_hashes)

FileHash64Windows ==
    {o \in Windows(8) : Value64At(o) \in context.valid_file_hashes64}

\* C9: file_hashes64 holds exactly the windows (o a multiple of 8, o + 8 <=
\* length) whose little-endian 64-bit value is in valid_file_hashes64,
\* whatever the 4-byte pass found in the same bytes.
C9_FileHashes64Exact ==
    ScanDone =>
        /\ Range(result.r.file_hashes64) =
               {ScannedHash(o, Value64At(o)) : o \in FileHash64Windows}
        /\ StrictlyIncreasing(result.r.file_hashes64)
        /\ Len(result.r.file_hashes64) = Cardinality(FileHash64Windows)

\* Bytes that are a 64-bit match and hold a file hash and a string hash.
C9_Witness ==
    /\ ScanDone
    /\ \E m \in Range(result.r.file_hashes64) :
           /\ \E f \in Range(result.r.file_hashes) : f.offset = m.offset + 4
           /\ \E s \in Range(result.r.string_hashes) : s.offset = m.offset

\* ------------------------------------------------- transform_tag_cache

\* The number of matches of one flat cache the transform is tried on.
MaxMatches == 3

\* m with key k set to v (IntMap::insert).
MapInsert(m, k, v) ==
    [x \in DOMAIN m \cup {k} |-> IF x = k THEN v ELSE m[x]]

\* A plausible slip: an occupied entry replaced instead of pushed to.
PushReference_Overwrite(drc, target, k2) == MapInsert(drc, target, << k2 >>)

\* A plausible slip: a referencer recorded once per target.
PushReference_Dedup(drc, target, k2) ==
    IF target \in DOMAIN drc
    THEN IF \E i \in DOMAIN drc[target] : drc[target][i] = k2
         THEN drc
         ELSE MapInsert(drc, target, Append(drc[target], k2))
    ELSE MapInsert(drc, target, << k2 >>)

\* A plausible slip: the edge stored forwards, the target under the referencer.
PushReference_Forward(drc, target, k2) ==
    IF k2 \in DOMAIN drc
    THEN MapInsert(drc, k2, Append(drc[k2], target))
    ELSE MapInsert(drc, k2, << target >>)

\* A plausible slip: an occupied entry is left as it is, and the list of a
\* target is the referencer the loop comes to first.
PushReference_KeepFirst(drc, target, k2) ==
    IF target \in DOMAIN drc THEN drc ELSE MapInsert(drc, target, << k2 >>)

\* match direct_reference_cache.entry(target): an occupied entry is pushed
\* to, a vacant one is set to vec![k2].
PushReference(drc, target, k2) ==
    IF target \in DOMAIN drc
    THEN MapInsert(drc, target, Append(drc[target], k2))
    ELSE MapInsert(drc, target, << k2 >>)

\* for t32 in &v2.file_hashes, from its i-th element on.
RECURSIVE GatherFileHashes(_, _, _, _)
GatherFileHashes(drc, file_hashes, i, k2) ==
    IF i > Len(file_hashes) THEN drc
    ELSE GatherFileHashes(PushReference(drc, file_hashes[i].hash, k2),
                          file_hashes, i + 1, k2)

\* for t64 in &v2.file_hashes64: a hash the table resolves is pushed under
\* its hash32, any other is passed over.
RECURSIVE GatherFileHashes64(_, _, _, _, _)
GatherFileHashes64(drc, table, file_hashes64, i, k2) ==
    IF i > Len(file_hashes64) THEN drc
    ELSE LET t64 == file_hashes64[i].hash
             d1  == IF t64 \in DOMAIN table
                    THEN PushReference(drc, table[t64].hash32, k2)
                    ELSE drc
         IN  GatherFileHashes64(d1, table, file_hashes64, i + 1, k2)

\* transform_tag_cache, up to the first loop.
TransformBegin ==
    /\ pc = "transform"
    /\ pc' = "gather"
    /\ WriteStatus(StatusOf("TransformGathering"))
    /\ new_cache' = EmptyMap
    /\ direct_reference_cache' = EmptyMap
    /\ gathered' = {}
    /\ UNCHANGED << scanVars, hash64_table, cache, pipelineVars >>

\* One round of for (k2, v2) in &cache: a map is gone through in an order
\* of its own.
GatherStep(k2) ==
    /\ pc = "gather"
    /\ k2 \in DOMAIN cache \ gathered
    /\ direct_reference_cache' =
           GatherFileHashes64(
               GatherFileHashes(direct_reference_cache,
                                cache[k2].file_hashes, 1, k2),
               hash64_table, cache[k2].file_hashes64, 1, k2)
    /\ gathered' = gathered \cup {k2}
    /\ UNCHANGED << pc, scanVars, status, hash64_table, cache, new_cache,
                    pipelineVars >>

\* The first loop is over.
ApplyBegin ==
    /\ pc = "gather"
    /\ gathered = DOMAIN cache
    /\ pc' = "apply"
    /\ WriteStatus(StatusOf("TransformApplying"))
    /\ UNCHANGED << scanVars, hash64_table, transformVars, pipelineVars >>

\* A plausible slip: the references not attached.
ApplyReferences_Skip(v, drc, k) == v

\* A plausible slip: scan starts from ScanResult::default(), not v.clone().
ApplyReferences_FromDefault(v, drc, k) ==
    IF k \in DOMAIN drc THEN [EmptyScanResult EXCEPT !.references = drc[k]]
    ELSE EmptyScanResult

\* let mut scan = v.clone(); if let Some(refs) = ...get(k) { scan.references
\* = refs.clone() }
ApplyReferences(v, drc, k) ==
    IF k \in DOMAIN drc THEN [v EXCEPT !.references = drc[k]] ELSE v

\* One round of the second loop, for (k, v) in &cache.
ApplyStep(k) ==
    /\ pc = "apply"
    /\ k \in DOMAIN cache \ DOMAIN new_cache
    /\ new_cache' =
           MapInsert(new_cache, k,
                     ApplyReferences(cache[k], direct_reference_cache, k))
    /\ UNCHANGED << pc, scanVars, status, hash64_table, cache,
                    direct_reference_cache, gathered, pipelineVars >>

\* The second loop is over: new_cache is returned.
TransformReturn ==
    /\ pc = "apply"
    /\ DOMAIN new_cache = DOMAIN cache
    /\ pc' = "transformed"
    /\ UNCHANGED << scanVars, status, hash64_table, transformVars,
                    pipelineVars >>

\* --------------------------------------- inputs of transform_tag_cache

Id1 == TagHashNew(16, 0)

Id2 == TagHashNew(16, 1)

Id3 == TagHashNew(17, 0)

Ids == {Id1, Id2, Id3}

\* A 64-bit hash the table resolves to Id2, and one it does not hold.
ExtTo2 == U64(U32(1, 2), U32(3, 4))

ExtUnresolved == U64(U32(5, 6), U32(7, 8))

TransformTable == (ExtTo2 :> [hash32 |-> Id2])

\* One match in the entry src: of a file hash, or of a 64-bit hash.
Edges ==
    [src : Ids, kind : {"h32"}, hash : Ids]
        \cup [src : Ids, kind : {"h64"}, hash : {ExtTo2, ExtUnresolved}]

\* The hashes of the matches of one kind in the entry src, in order.
RECURSIVE SelectEdges(_, _, _)
SelectEdges(es, src, kind) ==
    IF es = << >> THEN << >>
    ELSE IF Head(es).src = src /\ Head(es).kind = kind
         THEN << Head(es).hash >> \o SelectEdges(Tail(es), src, kind)
         ELSE SelectEdges(Tail(es), src, kind)

\* The scan result of an entry that holds the 64-bit hashes h64 and then
\* the file hashes h32.
ScanResultOf(h32, h64) ==
    [file_hashes |->
        [i \in 1..Len(h32) |-> ScannedHash(8 * Len(h64) + 4 * (i - 1), h32[i])],
     file_hashes64 |->
        [j \in 1..Len(h64) |-> ScannedHash(8 * (j - 1), h64[j])],
     string_hashes |-> << >>,
     references |-> << >>]

\* A string hash, and the one entry that holds it, after its other matches.
StringHash == U32(9, 10)

StringHashesOf(k, offset) ==
    IF k = Id1 THEN << ScannedHash(offset, StringHash) >> ELSE << >>

\* The flat cache with the matches es and the keys of es and of extra.
FlatCacheOf(es, extra) ==
    [k \in {es[i].src : i \in DOMAIN es} \cup extra |->
        [ScanResultOf(SelectEdges(es, k, "h32"), SelectEdges(es, k, "h64"))
            EXCEPT !.string_hashes =
                StringHashesOf(k, 8 * Len(SelectEdges(es, k, "h64"))
                                    + 4 * Len(SelectEdges(es, k, "h32")))]]

InitTransform ==
    /\ pc = "transform"
    /\ data = << >>
    /\ context = [valid_file_hashes |-> Ids,
                  valid_file_hashes64 |-> {ExtTo2, ExtUnresolved},
                  known_string_hashes |-> {}]
    /\ result = NoResult
    /\ status = StatusNone
    /\ hash64_table = TransformTable
    /\ \E es \in UNION {[1..n -> Edges] : n \in 0..MaxMatches},
          extra \in SUBSET Ids :
           cache = FlatCacheOf(es, extra)
    /\ direct_reference_cache = EmptyMap
    /\ gathered = {}
    /\ new_cache = EmptyMap
    /\ PipelineIdle

NextTransform ==
    \/ TransformBegin
    \/ \E k2 \in DOMAIN cache : GatherStep(k2)
    \/ ApplyBegin
    \/ \E k \in DOMAIN cache : ApplyStep(k)
    \/ TransformReturn

SpecTransform == InitTransform /\ [][NextTransform]_vars

\* --------------------------------------- transform_tag_cache: properties

Transformed == pc = "transformed"

Occurrences(seq, x) == Cardinality({i \in DOMAIN seq : seq[i] = x})

\* The file hash matches of the flat entry X whose value is Y.
DirectCount(X, Y) ==
    Cardinality({i \in DOMAIN cache[X].file_hashes :
                    cache[X].file_hashes[i].hash = Y})

\* The 64-bit matches of the flat entry X that the table resolves to Y.
ExtendedCount(X, Y) ==
    Cardinality({i \in DOMAIN cache[X].file_hashes64 :
                    /\ cache[X].file_hashes64[i].hash \in DOMAIN hash64_table
                    /\ hash64_table[cache[X].file_hashes64[i].hash].hash32 = Y})

\* The flat entry X holds a match for Y, directly or through the table.
ForwardReferences(X, Y) == DirectCount(X, Y) + ExtendedCount(X, Y) > 0

References(Y) == new_cache[Y].references

\* C1: after transform_tag_cache, X occurs in the reference list of a key Y
\* exactly when X is a key of the flat cache whose scan result holds a file
\* hash match equal to Y or a 64-bit match the table resolves to Y.  With
\* one match for Id2 in each of Id1 and Id3, and none in Id2, the list of
\* Id2 is Id1 and Id3, once each; an entry nobody references has an empty
\* list.
C1_ReverseEdges ==
    Transformed =>
        /\ \A Y \in DOMAIN new_cache : \A X \in Ids :
               (Occurrences(References(Y), X) > 0)
                   <=> (X \in DOMAIN cache /\ ForwardReferences(X, Y))
        /\ \A Y \in DOMAIN new_cache : \A i \in DOMAIN References(Y) :
               References(Y)[i] \in Ids
        /\ ({Id1, Id2, Id3} \subseteq DOMAIN cache
              /\ DirectCount(Id1, Id2) + ExtendedCount(Id1, Id2) = 1
              /\ DirectCount(Id3, Id2) + ExtendedCount(Id3, Id2) = 1
              /\ ~ForwardReferences(Id2, Id2))
               => (References(Id2) = << Id1, Id3 >>
                     \/ References(Id2) = << Id3, Id1 >>)
        /\ \A Y \in DOMAIN new_cache :
               (\A X \in DOMAIN cache : ~ForwardReferences(X, Y))
                   => References(Y) = << >>

\* Id1 and Id3 each hold one match for Id2, and Id2 is in the cache.
C1_Witness ==
    /\ Transformed
    /\ {Id1, Id2, Id3} \subseteq DOMAIN cache
    /\ DirectCount(Id1, Id2) = 1
    /\ ExtendedCount(Id3, Id2) = 1
    /\ Len(References(Id2)) = 2
    /\ References(Id1) = << >>

\* C2 as stated: X is in the reference list of Y exactly when the forward
\* scan of Y holds a match equal to X.
C2_AsStated ==
    Transformed =>
        \A X \in DOMAIN new_cache : \A Y \in DOMAIN new_cache :
            (Occurrences(References(Y), X) > 0) <=> ForwardReferences(Y, X)

\* C2, amended: the reference list of Y holds exactly the entries X whose
\* forward scan (directly, or through the table) holds a match equal to Y.
C2_ReferencersOfTarget ==
    Transformed =>
        \A Y \in DOMAIN new_cache :
            Range(References(Y)) =
                {X \in DOMAIN cache : ForwardReferences(X, Y)}

\* X references Y, and Y does not reference X.
C2_Witness ==
    /\ Transformed
    /\ \E X \in DOMAIN cache : \E Y \in DOMAIN cache :
           /\ X # Y
           /\ ForwardReferences(X, Y)
           /\ ~ForwardReferences(Y, X)
           /\ X \in Range(References(Y))
           /\ Y \notin Range(References(X))

\* C3: nothing is de-duplicated: X occurs in the reference list of Y as
\* many times as X holds file hash matches equal to Y plus 64-bit matches
\* that resolve to Y.
C3_Multiplicity ==
    Transformed =>
        \A X \in DOMAIN cache : \A Y \in DOMAIN new_cache :
            Occurrences(References(Y), X) =
                DirectCount(X, Y) + ExtendedCount(X, Y)

\* One referencer listed twice, for a direct and for a resolved match.
C3_Witness ==
    /\ Transformed
    /\ \E X \in DOMAIN cache : \E Y \in DOMAIN new_cache :
           /\ DirectCount(X, Y) >= 1
           /\ ExtendedCount(X, Y) >= 1
           /\ Occurrences(References(Y), X) >= 2

\* C4: no entry is in its own reference list, also when its bytes hold a
\* match for its own Identifier.
C4_NoSelfReference ==
    Transformed =>
        \A Y \in DOMAIN new_cache : Occurrences(References(Y), Y) = 0

\* ------------------------------------------------------- load_tag_cache

\* The number of packages of the package manager.
NumPackages == 2

\* pkg.get_all_by_type(t, None): the indices of the entries of type t, in
\* the order of the entry table, from index i on.
RECURSIVE GetAllByType(_, _, _)
GetAllByType(entries, t, i) ==
    IF i >= Len(entries) THEN << >>
    ELSE IF entries[i + 1].file_type = t
         THEN << i >> \o GetAllByType(entries, t, i + 1)
         ELSE GetAllByType(entries, t, i + 1)

\* all_tags.sort_by_key(|v| v.0)
RECURSIVE SortByKey(_)
SortByKey(tags) ==
    IF tags = << >> THEN << >>
    ELSE LET least == CHOOSE i \in DOMAIN tags :
                          \A j \in DOMAIN tags : tags[i] <= tags[j]
             rest  == [j \in 1..(Len(tags) - 1) |->
                          IF j < least THEN tags[j] ELSE tags[j + 1]]
         IN  << tags[least] >> \o SortByKey(rest)

\* A plausible slip: every entry of the package, whatever its type.
AllTags_EveryType(pkg) == [i \in 1..Len(pkg.entries) |-> i - 1]

\* The entries of type 8 and then of type 16, sorted by entry index.
AllTags(pkg) ==
    SortByKey(GetAllByType(pkg.entries, 8, 0) \o GetAllByType(pkg.entries, 16, 0))

\* A plausible slip: break, the rest of the package given up.
AfterReadFailure_Break(pos, n) == n + 1

\* Err(e) => { error!(..); continue; }: on to the next element of all_tags.
AfterReadFailure(pos, n) == pos + 1

\* A plausible slip: only the entries of the types that are scanned.
CreateScannerContext_ScannedTypes(pm, table) ==
    [valid_file_hashes |->
        UNION {{TagHashNew(pm[p].pkg_id, i - 1) :
                   i \in {j \in DOMAIN pm[p].entries :
                              pm[p].entries[j].file_type \in {8, 16}}} :
                  p \in DOMAIN pm},
     valid_file_hashes64 |-> DOMAIN table,
     known_string_hashes |-> {}]

\* create_scanner_context(&package_manager()).
CreateScannerContext(pm, table) ==
    [valid_file_hashes |->
        UNION {{TagHashNew(pm[p].pkg_id, i - 1) : i \in DOMAIN pm[p].entries} :
                  p \in DOMAIN pm},
     valid_file_hashes64 |-> DOMAIN table,
     known_string_hashes |-> {}]

\* A plausible slip: #[serde(skip)] on references.
SerializeResult_SkipReferences(v) ==
    << v.file_hashes, v.file_hashes64, v.string_hashes, << >> >>

\* #[derive(serde::Serialize)] of ScanResult: the four fields, in the order
\* of the struct.
SerializeResult(v) ==
    << v.file_hashes, v.file_hashes64, v.string_hashes, v.references >>

\* #[derive(serde::Deserialize)] of ScanResult.
DeserializeResult(t) ==
    [file_hashes |-> t[1], file_hashes64 |-> t[2], string_hashes |-> t[3],
     references |-> t[4]]

\* The orders in which the keys of a map may come when it is iterated.
IterationOrders(m) ==
    {o \in [1..Cardinality(DOMAIN m) -> DOMAIN m] :
        \A i \in DOMAIN o, j \in DOMAIN o : o[i] = o[j] => i = j}

\* bincode::serialize(&cache): the number of pairs, then the pairs as the
\* map is iterated, in the order o.
Serialize(m, o) ==
    [header |-> << Cardinality(DOMAIN m) >>,
     pairs  |-> [i \in 1..Cardinality(DOMAIN m) |->
                    [key |-> o[i], value |-> SerializeResult(m[o[i]])]]]

\* What the file holds of c when the write has stopped after n of its items
\* (the number of pairs, and each pair).
Truncated(c, n) ==
    IF n = 0 THEN NoContent
    ELSE [header |-> c.header, pairs |-> SubSeq(c.pairs, 1, n - 1)]

\* A plausible slip: the pairs that are there are taken, however many the
\* file says it holds.
Deserializes_AnyNumber(c) == Len(c.header) > 0

\* bincode::deserialize_from is Ok: the number of pairs is there and as many
\* pairs follow.
Deserializes(c) == Len(c.header) > 0 /\ Len(c.pairs) = c.header[1]

\* The map bincode::deserialize_from gives: the pairs put in one by one.
RECURSIVE InsertPairs(_, _, _)
InsertPairs(m, pairs, i) ==
    IF i > Len(pairs) THEN m
    ELSE InsertPairs(MapInsert(m, pairs[i].key, DeserializeResult(pairs[i].value)),
                     pairs, i + 1)

Deserialize(c) == InsertPairs(EmptyMap, c.pairs, 1)

\* A plausible slip: what deserialize_from gives is unwrapped or defaulted,
\* and a file that does not hold a TagCache counts as loaded.
Decode_BincodeUnchecked(f) ==
    IF f.state = "bad_zstd" THEN "zstd_error" ELSE "loaded"

\* A plausible slip: the file is opened and never read.
Decode_NeverLoads(f) ==
    IF f.state = "bad_zstd" THEN "zstd_error" ELSE "bincode_error"

\* zstd::Decoder::new(cache_file) and bincode::deserialize_from over it.
Decode(f) ==
    IF f.state = "bad_zstd" THEN "zstd_error"
    ELSE IF Deserializes(f.content) THEN "loaded"
    ELSE "bincode_error"

\* A plausible slip: the status LoadingCache and the decoder before it is
\* known that the file is there.
FileOpens_Unchecked(f) == TRUE

\* if let Ok(cache_file) = File::open("cache.bin")
FileOpens(f) == f.state # "absent"

\* File::open("cache.bin"): an existing file is gone on to be decoded.
LoadOpen ==
    /\ pc = "start"
    /\ IF FileOpens(file)
       THEN /\ pc' = "decode"
            /\ WriteStatus(StatusOf("LoadingCache"))
            /\ UNCHANGED load_attempt
       ELSE /\ pc' = "create_context"
            /\ load_attempt' = "absent"
            /\ UNCHANGED status
    /\ UNCHANGED << scanVars, hash64_table, transformVars,
                    pkgs, previous, file, write_fault, workerVars, returned, lock >>

\* zstd::Decoder::new and bincode::deserialize_from: the cache is returned,
\* or the failure is logged and the cache is built.
LoadDecode ==
    /\ pc = "decode"
    /\ load_attempt' = Decode(file)
    /\ IF Decode(file) = "loaded"
       THEN /\ WriteStatus(StatusNone)
            /\ returned' = [done |-> TRUE, loaded |-> TRUE, cache |-> Deserialize(file.content)]
            /\ pc' = "done"
       ELSE /\ pc' = "create_context"
            /\ UNCHANGED << status, returned >>
    /\ UNCHANGED << scanVars, hash64_table, transformVars,
                    pkgs, previous, file, write_fault, workerVars, lock >>

\* The status CreatingScanner, the context, all_pkgs and package_count.
CreateContext ==
    /\ pc = "create_context"
    /\ WriteStatus(StatusOf("CreatingScanner"))
    /\ context' = CreateScannerContext(pkgs, hash64_table)
    /\ pc' = "scan"
    /\ UNCHANGED << data, result, hash64_table, transformVars, pipelineVars >>

\* if let ScanStatus::Scanning { current_package, .. } = *p
\* { current_package } else { 0 }
ReadProgress(p) == IF p.kind = "Scanning" THEN p.current_package ELSE 0

\* A plausible slip: the two fields of Scanning the wrong way round.
NextProgress_FieldsSwapped(current_package, package_count) ==
    StatusScanning(package_count, current_package + 1)

\* A plausible slip: the counter is written back as it was read.
NextProgress_NoIncrement(current_package, package_count) ==
    StatusScanning(current_package, package_count)

\* The status the closure writes, from the current_package it has read.
NextProgress(current_package, package_count) ==
    StatusScanning(current_package + 1, package_count)

\* A plausible slip: no block around the guard p, which lives on while the
\* closure runs.
DropGuard_Kept(holders, path) == holders

\* The end of the block of let current_package: the guard p is dropped.
DropGuard(holders, path) == holders \ {path}

\* A plausible slip: the status is read under read() and written under a
\* write() of its own, and closures read it side by side.
MayWrite_Shared(holders) == TRUE

\* SCANNER_PROGRESS.write() returns when no one holds the lock.
MayWrite(holders) == holders = NoHolder

\* The closure of map_with for the package path: SCANNER_PROGRESS.write()
\* has given the guard p, and current_package is read through it.
WorkerLock(path) ==
    /\ pc = "scan"
    /\ wpc[path] = "idle"
    /\ MayWrite(lock)
    /\ lock' = lock \cup {path}
    /\ wcur' = [wcur EXCEPT ![path] = ReadProgress(status)]
    /\ wpc' = [wpc EXCEPT ![path] = "locked"]
    /\ UNCHANGED << pc, scanVars, status, hash64_table, transformVars,
                    pkgs, previous, file, write_fault, wpos, results, returned,
                    load_attempt >>

\* The rest of the block: the status is written through p, and the block
\* ends, which drops p and current_package.
WorkerProgress(path) ==
    /\ pc = "scan"
    /\ wpc[path] = "locked"
    /\ status' = NextProgress(wcur[path], Cardinality(DOMAIN pkgs))
    /\ lock' = DropGuard(lock, path)
    /\ wcur' = [wcur EXCEPT ![path] = 0]
    /\ wpc' = [wpc EXCEPT ![path] = "open"]
    /\ UNCHANGED << pc, scanVars, hash64_table, transformVars,
                    pkgs, previous, file, write_fault, wpos, results, returned,
                    load_attempt >>

\* PackageVersion::Destiny2Lightfall.open(path).unwrap(), all_tags, and the
\* empty results map.
WorkerOpen(path) ==
    /\ pc = "scan"
    /\ wpc[path] = "open"
    /\ IF pkgs[path].can_open
       THEN /\ wpc' = [wpc EXCEPT ![path] = "read"]
            /\ wpos' = [wpos EXCEPT ![path] = 1]
            /\ results' = [results EXCEPT ![path] = EmptyMap]
       ELSE /\ wpc' = [wpc EXCEPT ![path] = "panicked"]
            /\ UNCHANGED << wpos, results >>
    /\ UNCHANGED << pc, scanVars, status, hash64_table, transformVars,
                    pkgs, previous, wcur, file, write_fault, returned, load_attempt, lock >>

\* A plausible slip: the hash made of the entry index alone, with one
\* package id for every package.
EntryHash_IndexOnly(pkg, t) == TagHashNew(16, t)

\* let hash = TagHash::new(pkg.pkg_id(), t as u16);
EntryHash(pkg, t) == TagHashNew(pkg.pkg_id, t)

\* One round of for (t, _) in all_tags.
WorkerReadEntry(path) ==
    /\ pc = "scan"
    /\ wpc[path] = "read"
    /\ wpos[path] <= Len(AllTags(pkgs[path]))
    /\ LET t     == AllTags(pkgs[path])[wpos[path]]
           entry == pkgs[path].entries[t + 1]
           hash  == EntryHash(pkgs[path], t)
       IN  IF entry.readable
           THEN /\ results' = [results EXCEPT ![path] =
                       MapInsert(@, hash, ScanFile(context, entry.data))]
                /\ wpos' = [wpos EXCEPT ![path] = @ + 1]
           ELSE /\ wpos' = [wpos EXCEPT ![path] =
                       AfterReadFailure(@, Len(AllTags(pkgs[path])))]
                /\ UNCHANGED results
    /\ UNCHANGED << pc, scanVars, status, hash64_table, transformVars,
                    pkgs, previous, wcur, file, write_fault, wpc, returned, load_attempt, lock >>

\* The loop is over: the closure returns results.
WorkerReturn(path) ==
    /\ pc = "scan"
    /\ wpc[path] = "read"
    /\ wpos[path] > Len(AllTags(pkgs[path]))
    /\ wpc' = [wpc EXCEPT ![path] = "done"]
    /\ UNCHANGED << pc, scanVars, status, hash64_table, transformVars,
                    pkgs, previous, wcur, file, write_fault, wpos, results, returned,
                    load_attempt, lock >>

\* A plausible slip: the results are taken when one closure has returned.
Joined_Any(w) == \E path \in DOMAIN w : w[path] = "done"

\* collect() has its value when the closure has returned for every element
\* of all_pkgs.
Joined(w) == \A path \in DOMAIN w : w[path] = "done"

\* .flatten().collect(): every closure has returned; the pairs of all the
\* results maps are put into one map, in an order of rayon's.
Collect ==
    /\ pc = "scan"
    /\ Joined(wpc)
    /\ LET keys == UNION {DOMAIN results[path] : path \in DOMAIN pkgs}
       IN  \E last \in [keys -> DOMAIN pkgs] :
               /\ \A k \in keys : k \in DOMAIN results[last[k]]
               /\ cache' = [k \in keys |-> results[last[k]][k]]
    /\ pc' = "transform"
    /\ UNCHANGED << scanVars, status, hash64_table, direct_reference_cache,
                    gathered, new_cache, pipelineVars >>

\* A closure has panicked: rayon hands the panic on to load_tag_cache.
ScanPanic ==
    /\ pc = "scan"
    /\ \E path \in DOMAIN pkgs : wpc[path] = "panicked"
    /\ pc' = "panicked"
    /\ UNCHANGED << scanVars, status, hash64_table, transformVars, pipelineVars >>

\* transform_tag_cache has returned: the status WritingCache.
WriteBegin ==
    /\ pc = "transformed"
    /\ pkgs # EmptyMap
    /\ WriteStatus(StatusOf("WritingCache"))
    /\ pc' = "write_create"
    /\ UNCHANGED << scanVars, hash64_table, transformVars, pipelineVars >>

\* bincode::serialize(..).unwrap() and File::create("cache.bin").unwrap():
\* the file is there and empty.
WriteCreate ==
    /\ pc = "write_create"
    /\ IF write_fault = "create"
       THEN pc' = "panicked" /\ UNCHANGED file
       ELSE pc' = "write_all" /\ file' = [state |-> "zstd", content |-> NoContent]
    /\ UNCHANGED << scanVars, status, hash64_table, transformVars,
                    pkgs, previous, write_fault, workerVars, returned, load_attempt, lock >>

\* writer.write_all(..).unwrap(), writer.finish().unwrap(), the status None
\* and the return of the cache; a write that fails leaves the items that
\* were written before it.
WriteAll ==
    /\ pc = "write_all"
    /\ \E o \in IterationOrders(new_cache) :
           IF write_fault = "write"
           THEN /\ \E n \in 0..Len(o) :
                       file' = [state |-> "zstd",
                                content |-> Truncated(Serialize(new_cache, o), n)]
                /\ pc' = "panicked"
                /\ UNCHANGED << status, returned >>
           ELSE /\ file' = [state |-> "zstd", content |-> Serialize(new_cache, o)]
                /\ WriteStatus(StatusNone)
                /\ returned' = [done |-> TRUE, loaded |-> FALSE, cache |-> new_cache]
                /\ pc' = "done"
    /\ UNCHANGED << scanVars, hash64_table, transformVars,
                    pkgs, previous, write_fault, workerVars, load_attempt, lock >>

\* ------------------------------------------- inputs of load_tag_cache

\* The package ids start at 0x10.
PkgIdOf(path) == 15 + path

Tag(path, i) == TagHashNew(PkgIdOf(path), i)

\* The 64-bit hash of the table, which resolves to entry 0 of package 2.
PipelineExt == U64(U32(1, 1), U32(2, 2))

PipelineTable == (PipelineExt :> [hash32 |-> Tag(2, 0)])

\* The entry types of a package: 8 and 16 are the types that are scanned.
EntryTypes(path) == IF path = 1 THEN << 16, 24, 8 >> ELSE << 8 >>

\* The bytes of the entries: matches for entries of the same and of other
\* packages, for itself, for an entry that is not scanned, and a 64-bit hash.
EntryData(path, i) ==
    IF path = 1 /\ i = 0
        THEN LeBytes4(Tag(2, 0)) \o LeBytes4(Tag(1, 0)) \o << 7 >>
    ELSE IF path = 1 /\ i = 2
        THEN LeBytes8(PipelineExt) \o LeBytes4(Tag(1, 1)) \o LeBytes4(Sentinel)
    ELSE IF path = 1
        THEN LeBytes4(Tag(1, 0))
    ELSE LeBytes4(Tag(1, 0)) \o LeBytes4(Tag(1, 0)) \o LeBytes4(Tag(path - 1, 0))

\* The entries that are scanned when they can be read.
ContentEntries ==
    {e \in (1..NumPackages) \X (0..2) :
        /\ e[2] < Len(EntryTypes(e[1]))
        /\ EntryTypes(e[1])[e[2] + 1] \in {8, 16}}

PackagesOf(can_open, readable) ==
    [path \in 1..NumPackages |->
        [pkg_id   |-> PkgIdOf(path),
         can_open |-> can_open[path],
         entries  |->
            [j \in 1..Len(EntryTypes(path)) |->
                [file_type |-> EntryTypes(path)[j],
                 readable  |-> IF << path, j - 1 >> \in ContentEntries
                               THEN readable[<< path, j - 1 >>] ELSE TRUE,
                 data      |-> EntryData(path, j - 1)]]]]

\* A cache.bin an earlier run has left.
StoredCache == Id1 :> [EmptyScanResult EXCEPT !.references = << Id1 >>]

\* Files an earlier run or another program has left: one that is no zstd
\* stream, one whose stream ends before the pairs its length promises, and
\* one that holds StoredCache.
BadZstdFile == [state |-> "bad_zstd", content |-> NoContent]

BadBincodeFile ==
    [state |-> "zstd", content |-> Truncated(Serialize(StoredCache, << Id1 >>), 1)]

StoredFile == [state |-> "zstd", content |-> Serialize(StoredCache, << Id1 >>)]

NoContext ==
    [valid_file_hashes |-> {}, valid_file_hashes64 |-> {},
     known_string_hashes |-> {}]

Init ==
    /\ pc = "start"
    /\ data = << >>
    /\ context = NoContext
    /\ result = NoResult
    /\ status = StatusNone
    /\ hash64_table = PipelineTable
    /\ cache = EmptyMap
    /\ direct_reference_cache = EmptyMap
    /\ gathered = {}
    /\ new_cache = EmptyMap
    /\ \E can_open \in [1..NumPackages -> BOOLEAN],
          readable \in [ContentEntries -> BOOLEAN] :
           pkgs = PackagesOf(can_open, readable)
    /\ file \in {NoFile, BadZstdFile, BadBincodeFile, StoredFile}
    /\ write_fault \in {"none", "create", "write"}
    /\ wpc = [path \in 1..NumPackages |-> "idle"]
    /\ wpos = [path \in 1..NumPackages |-> 1]
    /\ wcur = [path \in 1..NumPackages |-> 0]
    /\ results = [path \in 1..NumPackages |-> EmptyMap]
    /\ returned = NotReturned
    /\ load_attempt = "pending"
    /\ previous = NotReturned
    /\ lock = NoHolder

Next ==
    \/ LoadOpen
    \/ LoadDecode
    \/ CreateContext
    \/ \E path \in DOMAIN pkgs : WorkerLock(path)
    \/ \E path \in DOMAIN pkgs : WorkerProgress(path)
    \/ \E path \in DOMAIN pkgs : WorkerOpen(path)
    \/ \E path \in DOMAIN pkgs : WorkerReadEntry(path)
    \/ \E path \in DOMAIN pkgs : WorkerReturn(path)
    \/ Collect
    \/ ScanPanic
    \/ TransformBegin
    \/ \E k2 \in DOMAIN cache : GatherStep(k2)
    \/ ApplyBegin
    \/ \E k \in DOMAIN cache : ApplyStep(k)
    \/ TransformReturn
    \/ WriteBegin
    \/ WriteCreate
    \/ WriteAll

Spec == Init /\ [][Next]_vars

\* ------------------------------------- load_tag_cache, run after run

\* load_tag_cache is called again: by the process that called it before, or,
\* after a panic, by a new process, whose status is None.  cache.bin is as
\* the run before has left it; a fault of the write may be gone.
Restart ==
    /\ pc \in {"done", "panicked"}
    /\ pc' = "start"
    /\ previous' = returned
    /\ returned' = NotReturned
    /\ load_attempt' = "pending"
    /\ status' \in {status, StatusNone}
    /\ write_fault' \in {write_fault, "none"}
    /\ lock' = NoHolder
    /\ context' = NoContext
    /\ cache' = EmptyMap
    /\ direct_reference_cache' = EmptyMap
    /\ gathered' = {}
    /\ new_cache' = EmptyMap
    /\ wpc' = [path \in DOMAIN pkgs |-> "idle"]
    /\ wpos' = [path \in DOMAIN pkgs |-> 1]
    /\ wcur' = [path \in DOMAIN pkgs |-> 0]
    /\ results' = [path \in DOMAIN pkgs |-> EmptyMap]
    /\ UNCHANGED << data, result, hash64_table, pkgs, file >>

\* The first run finds no cache.bin or one that is no zstd stream; every
\* entry can be read.
InitRerun ==
    /\ pc = "start"
    /\ data = << >>
    /\ context = NoContext
    /\ result = NoResult
    /\ status = StatusNone
    /\ hash64_table = PipelineTable
    /\ cache = EmptyMap
    /\ direct_reference_cache = EmptyMap
    /\ gathered = {}
    /\ new_cache = EmptyMap
    /\ \E can_open \in [1..NumPackages -> BOOLEAN] :
           pkgs = PackagesOf(can_open, [e \in ContentEntries |-> TRUE])
    /\ file \in {NoFile, BadZstdFile}
    /\ write_fault \in {"none", "create", "write"}
    /\ wpc = [path \in 1..NumPackages |-> "idle"]
    /\ wpos = [path \in 1..NumPackages |-> 1]
    /\ wcur = [path \in 1..NumPackages |-> 0]
    /\ results = [path \in 1..NumPackages |-> EmptyMap]
    /\ returned = NotReturned
    /\ load_attempt = "pending"
    /\ previous = NotReturned
    /\ lock = NoHolder

NextRerun == Next \/ Restart

SpecRerun == InitRerun /\ [][NextRerun]_vars

\* ------------------------------------------- load_tag_cache: properties

\* load_tag_cache has returned a cache it has built.
Built == pc = "done" /\ returned.done /\ ~returned.loaded

\* The entries of the scanned types whose read succeeds.
ReadableContent ==
    {e \in ContentEntries : pkgs[e[1]].entries[e[2] + 1].readable}

NoOtherFailure ==
    /\ \A path \in DOMAIN pkgs : pkgs[path].can_open
    /\ write_fault = "none"

\* C10: an entry whose read fails is left out of the cache and the walk
\* goes on: the cache that is returned holds every other entry of type 8 or
\* 16 of every package, with the matches scan_file finds in its bytes; and
\* with no failure but failed reads, the run does not panic and does not
\* stop before it has returned.
C10_ReadFailureSkipsEntry ==
    /\ Built =>
        /\ DOMAIN returned.cache = {Tag(e[1], e[2]) : e \in ReadableContent}
        /\ \A e \in ReadableContent :
               LET got  == returned.cache[Tag(e[1], e[2])]
                   scan == ScanFile(CreateScannerContext(pkgs, hash64_table),
                                    EntryData(e[1], e[2]))
               IN  /\ got.file_hashes = scan.file_hashes
                   /\ got.file_hashes64 = scan.file_hashes64
                   /\ got.string_hashes = scan.string_hashes
    /\ NoOtherFailure =>
        /\ pc # "panicked"
        /\ pc # "done" => ENABLED Next

\* A read has failed; an entry of the same package and one of another
\* package are in the cache that was returned.
C10_Witness ==
    /\ Built
    /\ \E e \in ContentEntries \ ReadableContent :
           /\ \E f \in ReadableContent :
                  f[1] = e[1] /\ Tag(f[1], f[2]) \in DOMAIN returned.cache
           /\ \E f \in ReadableContent :
                  f[1] # e[1] /\ Tag(f[1], f[2]) \in DOMAIN returned.cache

\* The packages whose open fails.
Unopenable == {path \in DOMAIN pkgs : ~pkgs[path].can_open}

\* The entries that are read from a package that opens.
ScannedContent == {e \in ReadableContent : e[1] \notin Unopenable}

\* C11: when one package cannot be opened and nothing else fails, the run
\* does not panic, and the cache that is returned holds the entries of the
\* other packages.
C11_OpenFailureSkipsPackage ==
    (Cardinality(Unopenable) = 1 /\ write_fault = "none") =>
        /\ pc # "panicked"
        /\ Built =>
               DOMAIN returned.cache = {Tag(e[1], e[2]) : e \in ScannedContent}

\* The load attempt has failed: no file, or one zstd or bincode refuses.
LoadFailed == load_attempt \in {"absent", "zstd_error", "bincode_error"}

\* C12: whichever way the load of cache.bin fails, no error comes of it: the
\* run goes on to build the cache (the context, the packages, the transform,
\* the write) and what it returns is the cache it has built; only a file
\* that decodes is returned as loaded.
C12_LoadFailureRebuilds ==
    /\ LoadFailed =>
        /\ pc \notin {"start", "decode"}
        /\ ~returned.loaded
        /\ NoOtherFailure => pc # "panicked"
        /\ pc = "done" =>
            /\ Built
            /\ status = StatusNone
            /\ returned.cache = new_cache
            /\ DOMAIN returned.cache = {Tag(e[1], e[2]) : e \in ReadableContent}
            /\ file.state = "zstd"
            /\ Deserializes(file.content)
            /\ Deserialize(file.content) = returned.cache
    /\ returned.loaded =>
        /\ load_attempt = "loaded"
        /\ file.state = "zstd"
        /\ Deserializes(file.content)
        /\ returned.cache = Deserialize(file.content)

\* A file that does not deserialize was found, and the cache was built and
\* returned.
C12_Witness ==
    /\ load_attempt = "bincode_error"
    /\ Built
    /\ returned.cache # EmptyMap

\* C13: when cache.bin cannot be created or written and nothing else fails,
\* the run does not panic: it returns the cache it has built, and the file
\* does not hold a cache.
C13_WriteFailureStillReturns ==
    (write_fault # "none" /\ Unopenable = {}) =>
        /\ pc # "panicked"
        /\ Built => returned.cache = new_cache /\ ~Deserializes(file.content)

\* The run of load_tag_cache is over: it has returned or it has panicked.
Finished == pc \in {"done", "panicked"}

\* C14: when a run of load_tag_cache is over, with a cache loaded, with a
\* cache built and stored, or with a failure of a package open or of the
\* write of cache.bin, the status is None.
C14_IdleWhenFinished == Finished => status = StatusNone

\* The place of a status in the order of the phases of a run.
PhaseRank(s) ==
    CASE s.kind = "LoadingCache" -> 1
      [] s.kind = "CreatingScanner" -> 2
      [] s.kind = "Scanning" -> 3
      [] s.kind = "TransformGathering" -> 4
      [] s.kind = "TransformApplying" -> 5
      [] s.kind = "WritingCache" -> 6
      [] OTHER -> 0

\* The place of the status now: None is the first phase of a run, and the
\* last one when the run has returned.
Phase ==
    IF status.kind = "None"
    THEN IF returned.done THEN PhaseRank(StatusOf("WritingCache")) + 1 ELSE 0
    ELSE PhaseRank(status)

\* C15: no step of a run of load_tag_cache takes the status back to an
\* earlier phase of None, LoadingCache, CreatingScanner, Scanning,
\* TransformGathering, TransformApplying, WritingCache, None; and from one
\* Scanning status to the next, current_package does not go down and
\* total_packages stays.
C15_PhasesForward ==
    [][/\ Phase' >= Phase
       /\ (status.kind = "Scanning" /\ status'.kind = "Scanning") =>
              /\ status'.current_package >= status.current_package
              /\ status'.total_packages = status.total_packages]_vars

\* A run that found a file zstd refuses has been through every phase up to
\* WritingCache, with the counter of Scanning moved for every package.
C15_Witness ==
    /\ load_attempt = "zstd_error"
    /\ status.kind = "WritingCache"
    /\ pc = "write_all"

\* C16: when there is no cache.bin, File::open fails without an error for
\* the caller and the run goes on to build; the status is not set to
\* LoadingCache in that run, and the first status written over None is
\* CreatingScanner.
C16_AbsentFileSkipsLoading ==
    /\ [](load_attempt = "absent" =>
            /\ status.kind # "LoadingCache"
            /\ pc \notin {"start", "decode"}
            /\ ~returned.loaded
            /\ pc = "create_context" => status = StatusNone)
    /\ [][/\ (pc = "start" /\ file.state = "absent") =>
                 /\ load_attempt' = "absent"
                 /\ pc' = "create_context"
                 /\ status' = status
          /\ (load_attempt = "absent" /\ status = StatusNone /\ status' # status) =>
                 status' = StatusOf("CreatingScanner")
          /\ load_attempt = "absent" => load_attempt' = "absent"]_vars

\* No file was found and the status CreatingScanner has been written.
C16_Witness ==
    /\ load_attempt = "absent"
    /\ pc = "scan"
    /\ status = StatusOf("CreatingScanner")

\* transform_tag_cache has been called in a run that builds the cache.
TransformerStarted ==
    \/ pc \in {"gather", "apply", "transformed", "write_create", "write_all"}
    \/ Built
    \/ status.kind \in {"TransformGathering", "TransformApplying", "WritingCache"}

\* The flat cache holds the pairs of the results maps of all the closures.
Merged ==
    /\ DOMAIN cache = UNION {DOMAIN results[path] : path \in DOMAIN pkgs}
    /\ \A path \in DOMAIN pkgs :
           \A k \in DOMAIN results[path] : cache[k] = results[path][k]

\* C17: the transformer starts (the status TransformGathering, the first
\* loop over the flat cache) only when every closure has returned and the
\* flat cache holds all their results; from then on no closure holds the
\* lock, writes the status or adds a result; and the second loop gives no
\* entry its references before the first loop has been through every key.
C17_HardBarrier ==
    /\ [](TransformerStarted =>
            /\ \A path \in DOMAIN pkgs : wpc[path] = "done"
            /\ lock = NoHolder
            /\ Merged)
    /\ []((pc = "apply" \/ new_cache # EmptyMap) => gathered = DOMAIN cache)
    /\ [][/\ (pc = "transform" \/ TransformerStarted) =>
                 /\ UNCHANGED << wpc, wpos, results, lock, cache >>
                 /\ status' # status => status'.kind # "Scanning"
          /\ new_cache' # new_cache =>
                 /\ gathered = DOMAIN cache
                 /\ UNCHANGED << gathered, direct_reference_cache >>]_vars

\* The first loop is at work on a flat cache with entries of two packages.
C17_Witness ==
    /\ pc = "gather"
    /\ status = StatusOf("TransformGathering")
    /\ gathered # {}
    /\ gathered # DOMAIN cache
    /\ \A path \in DOMAIN pkgs : results[path] # EmptyMap

\* What scan_file finds in the bytes of the entry e of the package source.
ScanOf(e) ==
    ScanFile(CreateScannerContext(pkgs, hash64_table),
             pkgs[e[1]].entries[e[2] + 1].data)

\* How often the bytes of the entry e hold a match for the key y, as a file
\* hash or as a 64-bit hash the table resolves to y.
MatchCount(e, y) ==
    Cardinality({i \in DOMAIN ScanOf(e).file_hashes :
                    ScanOf(e).file_hashes[i].hash = y})
    + Cardinality({i \in DOMAIN ScanOf(e).file_hashes64 :
                    /\ ScanOf(e).file_hashes64[i].hash \in DOMAIN hash64_table
                    /\ hash64_table[ScanOf(e).file_hashes64[i].hash].hash32 = y})

C19_LockOnlyAroundCounter ==
    /\ \A path \in DOMAIN pkgs : path \in lock <=> wpc[path] = "locked"
    /\ Cardinality(lock) <= 1
    /\ (pc = "scan" /\ \A path \in DOMAIN pkgs : wpc[path] # "locked") =>
           /\ lock = NoHolder
           /\ \A path \in DOMAIN pkgs :
                  wpc[path] = "idle" => ENABLED WorkerLock(path)

\* One closure is reading entries while another holds the lock.
C19_Witness ==
    \E p \in DOMAIN pkgs, q \in DOMAIN pkgs :
        /\ wpc[p] = "read"
        /\ wpos[p] > 1
        /\ wpc[q] = "locked"
        /\ lock = {q}

\* The packages whose closure has been through the block of the counter.
StartedPackages == {path \in DOMAIN pkgs : wpc[path] \notin {"idle", "locked"}}

\* The packages whose closure has returned: opened, read and scanned.
FinishedPackages == {path \in DOMAIN pkgs : wpc[path] = "done"}

\* C20, as the spec has it: while the packages are scanned, current_package
\* is the number of packages whose processing has finished.
C20_AsStated ==
    (pc = "scan" /\ status.kind = "Scanning") =>
        status.current_package = Cardinality(FinishedPackages)

\* C20: the counter is raised once per package, when its closure starts:
\* the status is Scanning as soon as one closure has started, current_package
\* is the number of the packages whose closure has started, finished or
\* not, and total_packages is the number of all packages.
C20_CounterCountsStarted ==
    /\ status.kind = "Scanning" =>
        /\ status.current_package = Cardinality(StartedPackages)
        /\ status.current_package >= Cardinality(FinishedPackages)
        /\ status.total_packages = Cardinality(DOMAIN pkgs)
    /\ (pc = "scan" /\ status.kind # "Scanning") => StartedPackages = {}

\* Every package is counted and not one has finished.
C20_Witness ==
    /\ pc = "scan"
    /\ status.kind = "Scanning"
    /\ status.current_package = Cardinality(DOMAIN pkgs)
    /\ FinishedPackages = {}
    /\ \E path \in DOMAIN pkgs : wpc[path] = "read"

\* The pairs of package and key of all the results maps.
ResultPairs ==
    UNION {{<< path, k >> : k \in DOMAIN results[path]} : path \in DOMAIN pkgs}

\* collect() has given the flat cache.
Collected == pc = "transform" \/ TransformerStarted

\* C21: two entries with the same entry index in packages of different
\* package ids have different hashes and are both keys of the flat cache,
\* each with the scan result of its own package; the flat cache has as many
\* keys as the results maps have pairs, so no pair has replaced another.
C21_NoCollisionAcrossPackages ==
    Collected =>
        /\ Cardinality(DOMAIN cache) = Cardinality(ResultPairs)
        /\ \A e \in ReadableContent, f \in ReadableContent :
               (e[1] # f[1] /\ e[2] = f[2]) =>
                   /\ Tag(e[1], e[2]) # Tag(f[1], f[2])
                   /\ Tag(e[1], e[2]) \in DOMAIN cache
                   /\ Tag(f[1], f[2]) \in DOMAIN cache
                   /\ cache[Tag(e[1], e[2])] = results[e[1]][Tag(e[1], e[2])]

\* The entries of index 0 of two packages are both in the flat cache.
C21_Witness ==
    /\ Collected
    /\ \E e \in ReadableContent, f \in ReadableContent :
           /\ e[1] # f[1]
           /\ e[2] = f[2]
           /\ {Tag(e[1], e[2]), Tag(f[1], f[2])} \subseteq DOMAIN cache

\* The entries of the packages whose type is neither 8 nor 16.
OtherTypeEntries ==
    UNION {{<< path, i - 1 >> : i \in {j \in DOMAIN pkgs[path].entries :
                pkgs[path].entries[j].file_type \notin {8, 16}}} :
           path \in DOMAIN pkgs}

\* The key k of the map m holds a file hash match for the hash h.
HoldsMatchFor(m, k, h) ==
    \E i \in DOMAIN m[k].file_hashes : m[k].file_hashes[i].hash = h

\* C22: the keys of the cache a build returns are the hashes of the entries
\* of type 8 or 16 whose read succeeded, no more and no fewer; an entry of
\* another type is no key of the flat cache nor of the returned cache, although
\* its hash is in valid_file_hashes and is found in the bytes of other entries;
\* and the transformer adds no key.
C22_KeysAreScannedEntries ==
    /\ Collected =>
        /\ \A k \in DOMAIN cache :
               \E e \in ContentEntries :
                   /\ k = Tag(e[1], e[2])
                   /\ pkgs[e[1]].entries[e[2] + 1].file_type \in {8, 16}
                   /\ pkgs[e[1]].entries[e[2] + 1].readable
        /\ \A o \in OtherTypeEntries :
               /\ Tag(o[1], o[2]) \in context.valid_file_hashes
               /\ Tag(o[1], o[2]) \notin DOMAIN cache
               /\ Tag(o[1], o[2]) \notin DOMAIN new_cache
        /\ DOMAIN new_cache \subseteq DOMAIN cache
    /\ Built =>
        /\ DOMAIN returned.cache = DOMAIN cache
        /\ DOMAIN returned.cache = {Tag(e[1], e[2]) : e \in ReadableContent}

\* A cache was built; an entry of type 24 is matched in the bytes of a key
\* and is no key.
C22_Witness ==
    /\ Built
    /\ \E o \in OtherTypeEntries, k \in DOMAIN returned.cache :
           /\ HoldsMatchFor(returned.cache, k, Tag(o[1], o[2]))
           /\ Tag(o[1], o[2]) \notin DOMAIN returned.cache

\* The caches a and b have the same keys and, under every key, the same
\* three match lists and the same references, each as often.
SameCache(a, b) ==
    /\ DOMAIN a = DOMAIN b
    /\ \A k \in DOMAIN a :
           /\ a[k].file_hashes = b[k].file_hashes
           /\ a[k].file_hashes64 = b[k].file_hashes64
           /\ a[k].string_hashes = b[k].string_hashes
           /\ Len(a[k].references) = Len(b[k].references)
           /\ \A i \in DOMAIN a[k].references :
                  Occurrences(a[k].references, a[k].references[i])
                      = Occurrences(b[k].references, a[k].references[i])

\* This run has loaded cache.bin and the run before it had built and
\* written it.
LoadedAfterBuild ==
    /\ returned.done /\ returned.loaded
    /\ previous.done /\ ~previous.loaded

FileIsValid == file.state = "zstd" /\ Deserializes(file.content)

\* C24: a cache.bin that decodes is loaded and nothing else is done: the
\* statuses written are LoadingCache and then None, the cache of the file
\* is returned, and the run has made no scanner context, started no
\* closure, scanned no entry, not run the transformer, and left the file as
\* it was.
C24_LoadSupersedesBuild ==
    /\ [](returned.loaded =>
            /\ pc = "done"
            /\ status = StatusNone
            /\ file = StoredFile
            /\ returned.cache = StoredCache
            /\ context = NoContext
            /\ \A path \in DOMAIN pkgs :
                   wpc[path] = "idle" /\ results[path] = EmptyMap
            /\ cache = EmptyMap
            /\ direct_reference_cache = EmptyMap
            /\ new_cache = EmptyMap)
    /\ [][/\ (pc = "start" /\ FileIsValid) =>
                 /\ pc' = "decode"
                 /\ status' = StatusOf("LoadingCache")
                 /\ UNCHANGED << file, context, workerVars, transformVars >>
          /\ (pc = "decode" /\ FileIsValid) =>
                 /\ pc' = "done"
                 /\ status = StatusOf("LoadingCache")
                 /\ status' = StatusNone
                 /\ returned' = [done |-> TRUE, loaded |-> TRUE,
                                 cache |-> Deserialize(file.content)]
                 /\ UNCHANGED << file, context, workerVars, transformVars >>]_vars

\* The cache of the file was returned.
C24_Witness ==
    /\ returned.loaded
    /\ load_attempt = "loaded"
    /\ returned.cache = StoredCache
    /\ \E path \in DOMAIN pkgs : ~pkgs[path].can_open

\* cache.bin was created and its write was not finished: the stream ends
\* before the number of pairs or before the last pair.
HalfWritten == file.state = "zstd" /\ ~Deserializes(file.content)

ContextCreated ==
    pc \notin {"start", "decode", "create_context"} /\ ~returned.loaded

\* The entries of the entry index: every index of every package.
IndexedEntries ==
    UNION {{<< path, i - 1 >> : i \in DOMAIN pkgs[path].entries} :
           path \in DOMAIN pkgs}

\* C26: the context create_scanner_context returns holds in
\* valid_file_hashes the hash of every entry index of every package of the
\* entry index, of whatever type and whether the package opens or not, and
\* no other hash; in valid_file_hashes64 the keys of hash64_table; and no
\* known string hash.
C26_ContextSets ==
    ContextCreated =>
        /\ \A e \in IndexedEntries :
               TagHashNew(pkgs[e[1]].pkg_id, e[2]) \in context.valid_file_hashes
        /\ \A h \in context.valid_file_hashes :
               \E e \in IndexedEntries : h = TagHashNew(pkgs[e[1]].pkg_id, e[2])
        /\ Cardinality(context.valid_file_hashes) = Cardinality(IndexedEntries)
        /\ context.valid_file_hashes64 = DOMAIN hash64_table
        /\ context.known_string_hashes = {}

\* The context holds the hash of an entry of type 24 of a package that
\* does not open, and a 64-bit hash.
C26_Witness ==
    /\ ContextCreated
    /\ \E o \in OtherTypeEntries :
           /\ ~pkgs[o[1]].can_open
           /\ Tag(o[1], o[2]) \in context.valid_file_hashes
    /\ PipelineExt \in context.valid_file_hashes64

Updating == {path \in DOMAIN pkgs : wpc[path] = "locked"}

\* The closures that have written the counter.
Updated == {path \in DOMAIN pkgs : wpc[path] \notin {"idle", "locked"}}

\* C28: no progress update is lost. A closure's read, increment and write of
\* the counter are one step to every other closure: while a closure is between
\* its read and its write, it is the only one there and the status still
\* holds what it read. Every recorded Scanning status has total_packages = N
\* and 1 <= current_package <= N, each write raises current_package by
\* exactly one, and once every closure has written, the status is
\* Scanning { N, N }.
C28_NoLostUpdate ==
    /\ [](pc = "scan" =>
            /\ Cardinality(Updating) <= 1
            /\ \A path \in Updating : wcur[path] = ReadProgress(status)
            /\ status.kind = "Scanning" =>
                 /\ status.total_packages = Cardinality(DOMAIN pkgs)
                 /\ 1 <= status.current_package
                 /\ status.current_package <= Cardinality(DOMAIN pkgs)
            /\ Updated = DOMAIN pkgs =>
                 status = StatusScanning(Cardinality(DOMAIN pkgs),
                                         Cardinality(DOMAIN pkgs)))
    /\ [][(pc = "scan" /\ status' # status) =>
            /\ status'.kind = "Scanning"
            /\ status'.current_package = ReadProgress(status) + 1]_vars

\* Every closure has written the counter, the last of them after another one
\* had already gone on to read its package.
C28_Witness ==
    /\ pc = "scan"
    /\ Cardinality(DOMAIN pkgs) >= 2
    /\ Updated = DOMAIN pkgs
    /\ status = StatusScanning(Cardinality(DOMAIN pkgs), Cardinality(DOMAIN pkgs))
    /\ \E path \in DOMAIN pkgs : wpc[path] = "open"
    /\ \E path \in DOMAIN pkgs : wpc[path] \notin {"idle", "locked", "open"}

\* The Identifiers the matches of the flat cache point at: a file hash
\* itself, and what the table gives for a 64-bit hash it holds.
ReferencedIds ==
    UNION {{cache[k].file_hashes[i].hash : i \in DOMAIN cache[k].file_hashes}
           \cup {hash64_table[cache[k].file_hashes64[j].hash].hash32 :
                   j \in {j \in DOMAIN cache[k].file_hashes64 :
                            cache[k].file_hashes64[j].hash
                                \in DOMAIN hash64_table}} :
           k \in DOMAIN cache}

\* C29: transform_tag_cache changes nothing but the reference lists. At
\* every point of the second loop the entries of new_cache are entries of the
\* flat cache with the same file_hashes, file_hashes64 and string_hashes, in
\* values, offsets and order; the cache returned has exactly the keys of the
\* flat cache, so an Identifier that is matched but is no key gets no entry;
\* and the flat cache itself is not changed by any step.
C29_OnlyReferencesChange ==
    /\ [](/\ DOMAIN new_cache \subseteq DOMAIN cache
          /\ \A k \in DOMAIN new_cache :
               /\ new_cache[k].file_hashes = cache[k].file_hashes
               /\ new_cache[k].file_hashes64 = cache[k].file_hashes64
               /\ new_cache[k].string_hashes = cache[k].string_hashes
          /\ Transformed => DOMAIN new_cache = DOMAIN cache)
    /\ [][cache' = cache]_vars

\* A transformed cache in which every kind of list has a match, and some
\* match points at an Identifier that is not a key.
C29_Witness ==
    /\ Transformed
    /\ ReferencedIds \ DOMAIN cache # {}
    /\ \E k \in DOMAIN new_cache : new_cache[k].file_hashes # << >>
    /\ \E k \in DOMAIN new_cache : new_cache[k].file_hashes64 # << >>
    /\ \E k \in DOMAIN new_cache : new_cache[k].string_hashes # << >>
    /\ \E k \in DOMAIN new_cache : new_cache[k].references # << >>

\* C30: for every status Scanning that is recorded during a build of N
\* packages, the text Display writes, "Creating new cache k/N", has
\* 1 <= k <= N: the package number shown never exceeds the total.
C30_DisplayedWithinTotal ==
    status.kind = "Scanning" =>
        /\ Display(status).text = "Creating new cache {}/{}"
        /\ Display(status).args[2] = Cardinality(DOMAIN pkgs)
        /\ 1 <= Display(status).args[1]
        /\ Display(status).args[1] <= Display(status).args[2]

====
